---- MODULE Spec2Model ----
(***************************************************************************)
(* Frame store and audio relay of app.py (Starlette).                      *)
(*                                                                         *)
(* The handlers are coroutines of one event loop: a handler runs without   *)
(* interruption from one await to the next, so every action below is the   *)
(* code between two suspension points of a handler.                        *)
(***************************************************************************)
EXTENDS Integers, Sequences, FiniteSets, TLC

\* ------------------------------------------------------------------ bounds
\* Upload requests that can be in flight at the same time.
MaxTasks == 2
\* Largest value time.time() returns.
MaxTime == 1
\* WebSocket connections accepted over the run.
NumConns == 3
\* Binary messages received over the run.
MaxMsgs == 2

\* The whole application (both halves in one run): connections accepted,
\* messages received, uploads in flight together.
AppConns == 2
AppMsgs == 1
AppTasks == 1

\* ------------------------------------------------------------- value domain
\* Python's None for a string-valued slot (frame_data, a missing form field).
None == <<-1>>
\* A device_id that is absent from the form / query string / path.
NoDevice == "<none>"
\* Keys uploaded_frames is created with.
ConfiguredDevices == {"pc1", "pc2", "phone"}
\* device_id values a client can send: absent, empty, configured, unknown.
DeviceInputs == {NoDevice, "", "pc1", "pc2", "phone", "cam"}
\* device_id values of the uploads: absent, empty, or the id of one of the
\* pages (each page posts its own id).  An id outside the configured set is
\* exercised through get_latest_frame and clear_frames.
UploadInputs == {NoDevice, "", "pc1", "pc2", "phone"}
\* File contents a client can upload (raw bytes); <<>> is an empty file.
Payloads == {<<>>, <<255>>, <<77, 97>>}
\* The 'frame' form field: absent, a plain text field (empty or not), a file
\* part (an UploadFile; its content is read later).
FrameKinds == {"missing", "empty_text", "text", "file"}
\* get_black_frame_bytes(): the encoded black 640x480 JPEG, a fixed byte string
\* no client upload of the model equals.
BlackFrame == <<255, 216, 0, 255, 217>>
\* Values of time.time(): positive, and not tied to the order of the requests
\* (the wall clock can be set back).
Times == 1..MaxTime

\* Connections, numbered in the order they are accepted.
Conns == 1..NumConns
\* Python's None in device1_ws / device2_ws.
NoConn == 0
\* The two WebSocket routes: /device1ws and /device2ws.
Endpoints == {1, 2}

VARIABLES
    device1_ws,        \* global device1_ws: a connection or NoConn
    device2_ws,        \* global device2_ws
    ws,                \* per connection: where its handler is, its route, the
                       \* send it is suspended in, and whether the client side
                       \* of the transport is still there
    delivered,         \* per connection: the messages send_bytes handed to its client
    nconn,             \* connections accepted so far
    nmsg,              \* messages received so far (a message is its number)
    rcv,               \* history: per message, who received it and the peer
                       \* global's value at that moment
    repair,            \* history: the pair (a, b) made when a registered into an
                       \* empty slot after a connection of that route had
                       \* closed, b being registered and open in the other
                       \* slot; kept until the client of a or of b leaves, a
                       \* read on a or b fails, or another connection registers
    uploaded_frames,   \* device_id -> [frame_data, timestamp]
    frame_lock,        \* TRUE while a handler holds frame_lock
    uploads,           \* device_id -> upload_frame handlers suspended in frame_file.read()
    resp,              \* the HTTP response most recently returned
    lastMut,           \* history: per device_id, "none" until an upload completes,
                       \* then the last completed Put (with its payload) or Clear
    access             \* history: the shared structure a handler touched last
                       \* and whether it held frame_lock while doing so

storeVars == <<uploaded_frames, frame_lock, uploads, resp, lastMut>>
relayVars == <<device1_ws, device2_ws, ws, delivered, nconn, nmsg, rcv, repair>>
vars == <<uploaded_frames, frame_lock, uploads, resp, lastMut, access,
          device1_ws, device2_ws, ws, delivered, nconn, nmsg, rcv, repair>>

\* ------------------------------------------------------------------ base64
\* The base64 alphabet as ASCII codes: A-Z a-z 0-9 + /
B64Char(i) ==
    IF i < 26 THEN 65 + i
    ELSE IF i < 52 THEN 97 + (i - 26)
    ELSE IF i < 62 THEN 48 + (i - 52)
    ELSE IF i = 62 THEN 43 ELSE 47

\* The 6-bit value of an ASCII code, -1 for a code outside the alphabet.
B64Index(ch) ==
    IF ch >= 65 /\ ch <= 90 THEN ch - 65
    ELSE IF ch >= 97 /\ ch <= 122 THEN ch - 97 + 26
    ELSE IF ch >= 48 /\ ch <= 57 THEN ch - 48 + 52
    ELSE IF ch = 43 THEN 62
    ELSE IF ch = 47 THEN 63 ELSE -1

\* '='
PadChar == 61

RECURSIVE B64Encode(_)
\* base64.b64encode(frame_bytes).decode('utf-8'), as a sequence of ASCII codes.
B64Encode(bs) ==
    IF Len(bs) = 0 THEN <<>>
    ELSE IF Len(bs) = 1 THEN
        << B64Char(bs[1] \div 4), B64Char((bs[1] % 4) * 16), PadChar, PadChar >>
    ELSE IF Len(bs) = 2 THEN
        << B64Char(bs[1] \div 4),
           B64Char((bs[1] % 4) * 16 + bs[2] \div 16),
           B64Char((bs[2] % 16) * 4), PadChar >>
    ELSE
        << B64Char(bs[1] \div 4),
           B64Char((bs[1] % 4) * 16 + bs[2] \div 16),
           B64Char((bs[2] % 16) * 4 + bs[3] \div 64),
           B64Char(bs[3] % 64) >> \o B64Encode(SubSeq(bs, 4, Len(bs)))

RECURSIVE B64Sextets(_)
\* The 6-bit values of the alphabet characters before the first '=';
\* characters outside the alphabet are discarded (validate=False).
B64Sextets(s) ==
    IF Len(s) = 0 \/ s[1] = PadChar THEN <<>>
    ELSE IF B64Index(s[1]) < 0 THEN B64Sextets(Tail(s))
    ELSE <<B64Index(s[1])>> \o B64Sextets(Tail(s))

RECURSIVE B64Bytes(_)
B64Bytes(q) ==
    IF Len(q) < 2 THEN <<>>
    ELSE IF Len(q) = 2 THEN << q[1] * 4 + q[2] \div 16 >>
    ELSE IF Len(q) = 3 THEN
        << q[1] * 4 + q[2] \div 16, (q[2] % 16) * 16 + q[3] \div 4 >>
    ELSE
        << q[1] * 4 + q[2] \div 16,
           (q[2] % 16) * 16 + q[3] \div 4,
           (q[3] % 4) * 64 + q[4] >> \o B64Bytes(SubSeq(q, 5, Len(q)))

\* Number of '=' in s.
PadCount(s) == Cardinality({i \in 1..Len(s) : s[i] = PadChar})

\* base64.b64decode(s): [ok, bytes]; ok = FALSE is binascii.Error
\* (a dangling sextet, or too little padding).
B64Decode(s) ==
    LET q == B64Sextets(s)
        r == Len(q) % 4
    IN  IF r = 1 \/ (r = 2 /\ PadCount(s) < 2) \/ (r = 3 /\ PadCount(s) < 1)
        THEN [ok |-> FALSE, bytes |-> <<>>]
        ELSE [ok |-> TRUE, bytes |-> B64Bytes(q)]

\* ASCII of 'data:image'
DataImagePrefix == <<100, 97, 116, 97, 58, 105, 109, 97, 103, 101>>

\* frame_b64.startswith('data:image')
StartsWithDataImage(s) ==
    /\ Len(s) >= Len(DataImagePrefix)
    /\ SubSeq(s, 1, Len(DataImagePrefix)) = DataImagePrefix

RECURSIVE AfterComma(_)
\* The text after the first ',' of s (up to the next one): split(',')[1];
\* None when s holds no ',' (IndexError).
AfterComma(s) ==
    LET RECURSIVE UpToComma(_)
        UpToComma(u) ==
            IF Len(u) = 0 \/ u[1] = 44 THEN <<>>
            ELSE <<u[1]>> \o UpToComma(Tail(u))
    IN  IF Len(s) = 0 THEN None
        ELSE IF s[1] = 44 THEN UpToComma(Tail(s))
        ELSE AfterComma(Tail(s))

\* ------------------------------------------------------------- frame store
EmptyEntry == [frame_data |-> None, timestamp |-> 0]

\* Keys a request can name.
StoreKeys == DeviceInputs \ {NoDevice, ""}
\* Keys an upload can name.
UploadKeys == UploadInputs \ {NoDevice, ""}

\* Mutant of OtherDevice: the list starts with phone.
OtherDevicePhoneFirst(device_id) ==
    LET all == <<"phone", "pc1", "pc2">>
        other_devices == SelectSeq(all, LAMBDA d : d # device_id)
    IN  IF Len(other_devices) > 0 THEN other_devices[1] ELSE "pc1"

\* Mutant of OtherDevice: the last of the remaining ids is shown.
OtherDeviceLast(device_id) ==
    LET all == <<"pc1", "pc2", "phone">>
        other_devices == SelectSeq(all, LAMBDA d : d # device_id)
    IN  IF Len(other_devices) > 0 THEN other_devices[Len(other_devices)] ELSE "pc1"

\* get_latest_frame: the device whose frame the caller is shown.
\* other_devices = ['pc1','pc2','phone'] without device_id; its first element.
OtherDevice(device_id) ==
    LET all == <<"pc1", "pc2", "phone">>
        other_devices == SelectSeq(all, LAMBDA d : d # device_id)
    IN  IF Len(other_devices) > 0 THEN other_devices[1] ELSE "pc1"

\* request.query_params.get('device_id', 'pc1')
QueryDevice(q) == IF q = NoDevice THEN "pc1" ELSE q

\* uploaded_frames.get(other_device, {}).get('frame_data')
StoredFrame(frames, d) ==
    IF d \in DOMAIN frames THEN frames[d].frame_data ELSE None

\* Mutant of FrameBody: the stored base64 text is served without decoding.
FrameBodyNoDecode(frame_b64) ==
    IF frame_b64 # None /\ Len(frame_b64) > 0 THEN frame_b64 ELSE BlackFrame

\* The body get_latest_frame answers with, given the frame_data it read.
FrameBody(frame_b64) ==
    IF frame_b64 # None /\ Len(frame_b64) > 0
    THEN LET src == IF StartsWithDataImage(frame_b64)
                    THEN AfterComma(frame_b64) ELSE frame_b64
             dec == IF src = None THEN [ok |-> FALSE, bytes |-> <<>>]
                    ELSE B64Decode(src)
         IN  IF dec.ok THEN dec.bytes ELSE BlackFrame
    ELSE BlackFrame

\* Mutant of PutEntry: frame_data is written into the existing entry and the
\* timestamp is left as it was (a torn entry).
PutEntryTorn(frames, d, b64, t) ==
    [k \in DOMAIN frames \cup {d} |->
        IF k = d
        THEN [frame_data |-> b64,
              timestamp |-> IF d \in DOMAIN frames THEN frames[d].timestamp ELSE t]
        ELSE frames[k]]

\* Mutant of PutEntry: the frame is stored without its time (timestamp 0).
PutEntryUnstamped(frames, d, b64, t) ==
    [k \in DOMAIN frames \cup {d} |->
        IF k = d THEN [frame_data |-> b64, timestamp |-> 0] ELSE frames[k]]

\* uploaded_frames[device_id] = {'frame_data': b64, 'timestamp': time.time()}
PutEntry(frames, d, b64, t) ==
    [k \in DOMAIN frames \cup {d} |->
        IF k = d THEN [frame_data |-> b64, timestamp |-> t] ELSE frames[k]]

\* Mutant of ClearEntry: only the timestamp is reset, the payload stays.
ClearEntryKeepsFrame(frames, d) ==
    [k \in DOMAIN frames \cup {d} |->
        IF k = d
        THEN [frame_data |-> StoredFrame(frames, d), timestamp |-> 0]
        ELSE frames[k]]

\* Mutant of ClearEntry: every entry is reset (all frames are cleared).
ClearEntryAll(frames, d) ==
    [k \in DOMAIN frames \cup {d} |-> EmptyEntry]

\* uploaded_frames[device_id] = {'frame_data': None, 'timestamp': 0}
ClearEntry(frames, d) ==
    [k \in DOMAIN frames \cup {d} |-> IF k = d THEN EmptyEntry ELSE frames[k]]

\* An HTTP response as the client sees it, with the request it answers:
\* the handler, the device_id sent (for an upload: NoDevice, "" or "id" for
\* any non-empty id), the device get_latest_frame resolved to, what the
\* 'frame' field of an upload held ("" when the handler answered before
\* looking at it), the status and the image body.
Response(op, arg, resolved, frame, status, body) ==
    [op |-> op, arg |-> arg, resolved |-> resolved, frame |-> frame,
     status |-> status, body |-> body,
     report |-> [known |-> {}, has_frame |-> {}, aged |-> {}]]

\* Mutant of HasFrame: a device is reported as having a frame as soon as it
\* has an entry.
HasFrameAnyEntry(entry) == entry.timestamp >= 0

\* uploaded_frames[device_id]['frame_data'] is not None
HasFrame(entry) == entry.frame_data # None

\* The 'uploaded_frames' object of the JSON debug_status answers with: the
\* device ids listed, those with has_frame true, those whose age_seconds is
\* not None (timestamp > 0).
DebugReport(frames) ==
    [known |-> DOMAIN frames,
     has_frame |-> {d \in DOMAIN frames : HasFrame(frames[d])},
     aged |-> {d \in DOMAIN frames : frames[d].timestamp > 0}]

\* The 'uploaded_frames' object of the JSON health answers with: device id ->
\* frame_data is not None (it reports no age).
HealthReport(frames) ==
    [known |-> DOMAIN frames,
     has_frame |-> {d \in DOMAIN frames : frames[d].frame_data # None},
     aged |-> {}]

\* A JSONResponse (status 200) carrying a report.
StatusResponse(op, report) ==
    [Response(op, NoDevice, NoDevice, "", 200, <<>>) EXCEPT !.report = report]

\* Accesses to the shared structures: which one, and whether frame_lock was
\* held.  The relay globals have no lock.
NoAccess == [shared |-> "", locked |-> FALSE]
StoreLocked == [shared |-> "uploaded_frames", locked |-> TRUE]
StoreUnlocked == [shared |-> "uploaded_frames", locked |-> FALSE]
RelayUnlocked == [shared |-> "device_ws", locked |-> FALSE]

NoMutation == [kind |-> "none", payload |-> <<>>, time |-> 0]

\* Number of upload_frame handlers suspended in `await frame_file.read()`.
InFlight == uploads["pc1"] + uploads["pc2"] + uploads["phone"]

\* ------------------------------------------------------------- audio relay
NewConn == [pc |-> "new", endpoint |-> 0, target |-> NoConn, data |-> 0, alive |-> FALSE]
NoRcv == [by |-> NoConn, peer |-> NoConn]
NoRepair == [a |-> NoConn, b |-> NoConn]

\* The handler of c is inside its `while True` loop.
Running(c) == ws[c].pc \in {"recv", "send"}

\* send_bytes to c can succeed: the client is there and the server has not
\* closed the socket (which it does when the handler returns).
IsOpen(c) == Running(c) /\ ws[c].alive

\* The global a handler of route e registers in.
OwnSocket(e) == IF e = 1 THEN device1_ws ELSE device2_ws

\* Mutant of PeerSocket: the handler tests and uses its own global.
PeerSocketOwn(e) == IF e = 1 THEN device1_ws ELSE device2_ws

\* The global a handler of route e forwards to: `if device2_ws:` in
\* ws_device1, `if device1_ws:` in ws_device2.
PeerSocket(e) == IF e = 1 THEN device2_ws ELSE device1_ws

\* Mutant of Deliver: the message is written to the peer twice.
DeliverTwice(q, data) == q \o <<data, data>>

\* peer.send_bytes(data) succeeding: data, as it is, reaches the peer's client.
Deliver(q, data) == Append(q, data)

\* Mutant of ExitSlot: a handler that leaves does not touch its global.
ExitSlotKept(e, c, cur) == cur

\* Mutant of ExitSlot: the slot is cleared only by its occupant.
ExitSlotIfOccupant(e, c, cur) == IF cur = c THEN NoConn ELSE cur

\* finally: device1_ws = None (ws_device1) / device2_ws = None (ws_device2).
\* The new value of the global of route e when connection c leaves, cur
\* being its value now.
ExitSlot(e, c, cur) == NoConn

InitStore ==
    /\ uploaded_frames = [d \in ConfiguredDevices |-> EmptyEntry]
    /\ frame_lock = FALSE
    /\ uploads = [d \in UploadKeys |-> 0]
    /\ resp = Response("none", NoDevice, NoDevice, "", 0, <<>>)
    /\ lastMut = [d \in StoreKeys |-> NoMutation]
    /\ access = NoAccess

InitRelay ==
    /\ device1_ws = NoConn
    /\ device2_ws = NoConn
    /\ ws = [c \in Conns |-> NewConn]
    /\ delivered = [c \in Conns |-> <<>>]
    /\ nconn = 0
    /\ nmsg = 0
    /\ rcv = [m \in 1..MaxMsgs |-> NoRcv]
    /\ repair = NoRepair

Init == InitStore /\ InitRelay

\* Mutant of GetLatestFrame: the frame is handed out once (the entry is
\* reset after it is read).
GetLatestFrameConsume(q) ==
    LET other_device == OtherDevice(QueryDevice(q))
    IN  /\ ~frame_lock
        /\ frame_lock' = FALSE
        /\ resp' = Response("get", q, other_device, "", 200,
                            FrameBody(StoredFrame(uploaded_frames, other_device)))
        /\ uploaded_frames' = ClearEntry(uploaded_frames, other_device)
        /\ access' = StoreLocked
        /\ UNCHANGED <<uploads, lastMut, relayVars>>

\* Mutant of GetLatestFrame: a poll that finds no frame is answered 404.
GetLatestFrameNotFound(q) ==
    LET other_device == OtherDevice(QueryDevice(q))
        frame_b64 == StoredFrame(uploaded_frames, other_device)
    IN  /\ ~frame_lock
        /\ frame_lock' = FALSE
        /\ resp' = IF frame_b64 # None
                   THEN Response("get", q, other_device, "", 200, FrameBody(frame_b64))
                   ELSE Response("get", q, other_device, "", 404, <<>>)
        /\ access' = StoreLocked
        /\ UNCHANGED <<uploaded_frames, uploads, lastMut, relayVars>>

\* GET /get_latest_frame?device_id=q  (the handler has no await: one step)
GetLatestFrame(q) ==
    LET other_device == OtherDevice(QueryDevice(q))
    IN  /\ ~frame_lock
        /\ frame_lock' = FALSE
        /\ resp' = Response("get", q, other_device, "", 200,
                            FrameBody(StoredFrame(uploaded_frames, other_device)))
        /\ access' = StoreLocked
        /\ UNCHANGED <<uploaded_frames, uploads, lastMut, relayVars>>

\* Mutant of UploadForm: frame_lock is taken before `await frame_file.read()`
\* and held across it.
UploadFormHoldsLock(device_id, kind) ==
    /\ InFlight < MaxTasks
    /\ ~frame_lock
    /\ IF device_id = NoDevice \/ device_id = ""
       THEN /\ resp' = Response("upload", device_id, NoDevice, "", 400, <<>>)
            /\ UNCHANGED <<uploads, frame_lock>>
       ELSE IF kind = "missing"
       THEN /\ resp' = Response("upload", "id", NoDevice, kind, 400, <<>>)
            /\ UNCHANGED <<uploads, frame_lock>>
       ELSE IF kind = "file"
       THEN /\ resp' = resp
            /\ uploads' = [uploads EXCEPT ![device_id] = @ + 1]
            /\ frame_lock' = TRUE
       ELSE /\ resp' = Response("upload", "id", NoDevice, kind, 500, <<>>)
            /\ UNCHANGED <<uploads, frame_lock>>
    /\ UNCHANGED <<uploaded_frames, lastMut, access, relayVars>>

\* POST /upload_frame: `await request.form()` returns; the device_id / frame
\* checks up to `await frame_file.read()`.  A text field (kind "text" or
\* "empty_text") has no .file, and bytes(str) raises TypeError, which the
\* handler turns into 500.
UploadForm(device_id, kind) ==
    /\ InFlight < MaxTasks
    /\ IF device_id = NoDevice \/ device_id = ""
       THEN /\ resp' = Response("upload", device_id, NoDevice, "", 400, <<>>)
            /\ uploads' = uploads
       ELSE IF kind = "missing"
       THEN /\ resp' = Response("upload", "id", NoDevice, kind, 400, <<>>)
            /\ uploads' = uploads
       ELSE IF kind = "file"
       THEN /\ resp' = resp
            /\ uploads' = [uploads EXCEPT ![device_id] = @ + 1]
       ELSE /\ resp' = Response("upload", "id", NoDevice, kind, 500, <<>>)
            /\ uploads' = uploads
    /\ UNCHANGED <<uploaded_frames, frame_lock, lastMut, access, relayVars>>

\* frame_file.read() returns frame_bytes in a handler uploading for
\* device_id: the empty check, the store under frame_lock at
\* time.time() = time, and the answer.
UploadRead(device_id, frame_bytes, time) ==
    /\ uploads[device_id] > 0
    /\ uploads' = [uploads EXCEPT ![device_id] = @ - 1]
    /\ UNCHANGED relayVars
    /\ IF Len(frame_bytes) = 0
       THEN /\ resp' = Response("upload", "id", NoDevice, "empty_file", 400, <<>>)
            /\ UNCHANGED <<uploaded_frames, frame_lock, lastMut, access>>
       ELSE /\ ~frame_lock
            /\ frame_lock' = FALSE
            /\ access' = StoreLocked
            /\ uploaded_frames' =
                   PutEntry(uploaded_frames, device_id, B64Encode(frame_bytes), time)
            /\ lastMut' = [lastMut EXCEPT ![device_id] =
                   [kind |-> "put", payload |-> frame_bytes, time |-> time]]
            /\ resp' = Response("upload", "id", NoDevice, "file", 200, <<>>)

\* Mutant of ClearFrames: clearing a device's frame also drops the relay
\* registrations.
ClearFramesDropsSockets(device_id) ==
    /\ device_id # NoDevice /\ device_id # ""
    /\ ~frame_lock
    /\ frame_lock' = FALSE
    /\ access' = StoreLocked
    /\ uploaded_frames' = ClearEntry(uploaded_frames, device_id)
    /\ lastMut' = [lastMut EXCEPT ![device_id] =
           IF @.kind = "none" THEN @
           ELSE [kind |-> "clear", payload |-> <<>>, time |-> 0]]
    /\ resp' = Response("clear", NoDevice, NoDevice, "", 200, <<>>)
    /\ device1_ws' = NoConn
    /\ device2_ws' = NoConn
    /\ UNCHANGED <<uploads, ws, delivered, nconn, nmsg, rcv, repair>>

\* GET /clear_frames/{device_id}  (no await: one step).  The route matches
\* only a non-empty path segment, so the 400 branch is not reachable by a
\* request.  lastMut records a Clear only once an upload has completed.
ClearFrames(device_id) ==
    /\ IF device_id = NoDevice \/ device_id = ""
       THEN /\ resp' = Response("clear", NoDevice, NoDevice, "", 400, <<>>)
            /\ UNCHANGED <<uploaded_frames, frame_lock, lastMut, access>>
       ELSE /\ ~frame_lock
            /\ frame_lock' = FALSE
            /\ access' = StoreLocked
            /\ uploaded_frames' = ClearEntry(uploaded_frames, device_id)
            /\ lastMut' = [lastMut EXCEPT ![device_id] =
                   IF @.kind = "none" THEN @
                   ELSE [kind |-> "clear", payload |-> <<>>, time |-> 0]]
            /\ resp' = Response("clear", NoDevice, NoDevice, "", 200, <<>>)
    /\ UNCHANGED <<uploads, relayVars>>

\* GET /debug  (no await: one step).  uploaded_frames is read without
\* frame_lock.
DebugStatus ==
    /\ resp' = StatusResponse("debug", DebugReport(uploaded_frames))
    /\ access' = StoreUnlocked
    /\ UNCHANGED <<uploaded_frames, frame_lock, uploads, lastMut, relayVars>>

\* GET /health  (no await: one step).  uploaded_frames is read without
\* frame_lock.
Health ==
    /\ resp' = StatusResponse("health", HealthReport(uploaded_frames))
    /\ access' = StoreUnlocked
    /\ UNCHANGED <<uploaded_frames, frame_lock, uploads, lastMut, relayVars>>

\* Mutant of Accept: a connection registers only into an empty slot.
AcceptIfEmpty(e) ==
    LET c == nconn + 1
    IN  /\ nconn < NumConns
        /\ nconn' = c
        /\ ws' = [ws EXCEPT ![c] = [pc |-> "recv", endpoint |-> e,
                                     target |-> NoConn, data |-> 0, alive |-> TRUE]]
        /\ device1_ws' = IF e = 1 /\ device1_ws = NoConn THEN c ELSE device1_ws
        /\ device2_ws' = IF e = 2 /\ device2_ws = NoConn THEN c ELSE device2_ws
        /\ repair' = NoRepair
        /\ access' = RelayUnlocked
        /\ UNCHANGED <<delivered, nmsg, rcv, storeVars>>

\* ws_device1 / ws_device2 up to the loop: `await websocket.accept()` returns
\* on route e and the handler writes the socket into its global.
Accept(e) ==
    LET c == nconn + 1
        b == PeerSocket(e)
    IN  /\ nconn < NumConns
        /\ nconn' = c
        /\ ws' = [ws EXCEPT ![c] = [pc |-> "recv", endpoint |-> e,
                                     target |-> NoConn, data |-> 0, alive |-> TRUE]]
        /\ device1_ws' = IF e = 1 THEN c ELSE device1_ws
        /\ device2_ws' = IF e = 2 THEN c ELSE device2_ws
        /\ repair' = IF /\ OwnSocket(e) = NoConn
                        /\ \E x \in Conns : ws[x].pc = "done" /\ ws[x].endpoint = e
                        /\ b # NoConn /\ IsOpen(b)
                     THEN [a |-> c, b |-> b]
                     ELSE NoRepair
        /\ access' = RelayUnlocked
        /\ UNCHANGED <<delivered, nmsg, rcv, storeVars>>

\* The client of c goes away (disconnect, network failure); the handler
\* learns of it at its next receive.
ClientClose(c) ==
    /\ IsOpen(c)
    /\ ws' = [ws EXCEPT ![c].alive = FALSE]
    /\ repair' = IF c \in {repair.a, repair.b} THEN NoRepair ELSE repair
    /\ UNCHANGED <<device1_ws, device2_ws, delivered, nconn, nmsg, rcv, access, storeVars>>

\* The handler of c leaves the loop: `except Exception: pass`, then
\* `finally: deviceN_ws = None`; the server closes the socket.
Leave(c) ==
    LET e == ws[c].endpoint
    IN  /\ ws' = [ws EXCEPT ![c] = [pc |-> "done", endpoint |-> e,
                                     target |-> NoConn, data |-> 0, alive |-> FALSE]]
        /\ device1_ws' = IF e = 1 THEN ExitSlot(e, c, device1_ws) ELSE device1_ws
        /\ device2_ws' = IF e = 2 THEN ExitSlot(e, c, device2_ws) ELSE device2_ws
        /\ access' = RelayUnlocked

\* Mutant of Receive: only the connection registered in its slot forwards; a
\* displaced one drops what it receives.
ReceiveIfRegistered(c) ==
    LET m == nmsg + 1
        peer == IF OwnSocket(ws[c].endpoint) = c
                THEN PeerSocket(ws[c].endpoint) ELSE NoConn
    IN  /\ ws[c].pc = "recv" /\ ws[c].alive
        /\ nmsg < MaxMsgs
        /\ nmsg' = m
        /\ rcv' = [rcv EXCEPT ![m] =
               [by |-> c,
                peer |-> IF ws[c].endpoint = 1 THEN device2_ws ELSE device1_ws]]
        /\ ws' = IF peer # NoConn
                 THEN [ws EXCEPT ![c].pc = "send", ![c].target = peer, ![c].data = m]
                 ELSE ws
        /\ access' = RelayUnlocked
        /\ UNCHANGED <<device1_ws, device2_ws, delivered, nconn, repair, storeVars>>

\* `data = await websocket.receive_bytes()` returns message nmsg + 1 on c;
\* `if peer: await peer.send_bytes(data)` starts the send to the socket the
\* peer global holds now, or drops the message when it holds None.
Receive(c) ==
    LET m == nmsg + 1
        peer == PeerSocket(ws[c].endpoint)
    IN  /\ ws[c].pc = "recv" /\ ws[c].alive
        /\ nmsg < MaxMsgs
        /\ nmsg' = m
        /\ rcv' = [rcv EXCEPT ![m] =
               [by |-> c,
                peer |-> IF ws[c].endpoint = 1 THEN device2_ws ELSE device1_ws]]
        /\ ws' = IF peer # NoConn
                 THEN [ws EXCEPT ![c].pc = "send", ![c].target = peer, ![c].data = m]
                 ELSE ws
        /\ access' = RelayUnlocked
        /\ UNCHANGED <<device1_ws, device2_ws, delivered, nconn, repair, storeVars>>

\* receive_bytes raises on c (the client disconnected, or the frame is not a
\* binary one): the handler leaves.
ReceiveFails(c) ==
    /\ ws[c].pc = "recv"
    /\ Leave(c)
    /\ repair' = IF c \in {repair.a, repair.b} THEN NoRepair ELSE repair
    /\ UNCHANGED <<delivered, nconn, nmsg, rcv, storeVars>>

\* `await peer.send_bytes(data)` ends: the message reaches the target's
\* client and the loop goes on, or the target's socket is closed, send_bytes
\* raises inside the try and the handler of c leaves.
SendDone(c) ==
    LET d == ws[c].target
    IN  /\ ws[c].pc = "send"
        /\ IF IsOpen(d)
           THEN /\ delivered' = [delivered EXCEPT ![d] = Deliver(@, ws[c].data)]
                /\ ws' = [ws EXCEPT ![c].pc = "recv", ![c].target = NoConn, ![c].data = 0]
                /\ UNCHANGED <<device1_ws, device2_ws, repair, access>>
           ELSE /\ Leave(c)
                /\ UNCHANGED <<delivered, repair>>
        /\ UNCHANGED <<nconn, nmsg, rcv, storeVars>>

NextRelay ==
    \/ \E e \in Endpoints : Accept(e)
    \/ \E c \in Conns : ClientClose(c)
    \/ \E c \in Conns : Receive(c)
    \/ \E c \in Conns : ReceiveFails(c)
    \/ \E c \in Conns : SendDone(c)

SpecRelay == Init /\ [][NextRelay]_vars

NextStore ==
    \/ \E q \in DeviceInputs : GetLatestFrame(q)
    \/ \E d \in UploadInputs, k \in FrameKinds : UploadForm(d, k)
    \/ \E d \in UploadKeys, b \in Payloads, time \in Times : UploadRead(d, b, time)
    \/ \E d \in StoreKeys : ClearFrames(d)
    \/ DebugStatus
    \/ Health

SpecStore == Init /\ [][NextStore]_vars

\* The whole application: the HTTP handlers and the WebSocket handlers on the
\* one event loop, pc1 uploading and clearing, pc2 polling.
NextApp ==
    \/ GetLatestFrame("pc2")
    \/ InFlight < AppTasks /\ UploadForm("pc1", "file")
    \/ UploadRead("pc1", <<255>>, 1)
    \/ ClearFrames("pc1")
    \/ DebugStatus
    \/ Health
    \/ \E e \in Endpoints : nconn < AppConns /\ Accept(e)
    \/ \E c \in Conns : ClientClose(c)
    \/ \E c \in Conns : nmsg < AppMsgs /\ Receive(c)
    \/ \E c \in Conns : ReceiveFails(c)
    \/ \E c \in Conns : SendDone(c)

SpecApp == Init /\ [][NextApp]_vars

\* The frame store under the event loop's scheduling: pc1 and pc2 upload
\* (files, empty or not) and poll, pc1 clears.  A handler suspended in
\* `await frame_file.read()` is resumed once the read has ended, and the read
\* (of the form's spooled file) always ends: weak fairness of the completion
\* of the uploads of each device.
LiveDevices == {"pc1", "pc2"}
LivePayloads == {<<>>, <<255>>}

UploadCompletes(d) == \E b \in LivePayloads : UploadRead(d, b, 1)

NextLive ==
    \/ \E q \in LiveDevices : GetLatestFrame(q)
    \/ \E d \in LiveDevices : UploadForm(d, "file")
    \/ \E d \in LiveDevices : UploadCompletes(d)
    \/ ClearFrames("pc1")

SpecLive ==
    /\ Init
    /\ [][NextLive]_vars
    /\ \A d \in LiveDevices : WF_vars(UploadCompletes(d))

\* ------------------------------------------------------------ frame store
\* claims

UploadedPayloads == {p \in Payloads : Len(p) > 0}

\* C1: read-after-write.  Once an upload of (d, payload) has completed and no
\* later upload or clear of d has, a get_latest_frame that resolves to d
\* answers exactly payload.
C1_ReadAfterWrite ==
    (resp.op = "get" /\ lastMut[resp.resolved].kind = "put")
        => resp.body = lastMut[resp.resolved].payload

\* C1 witness: pc2 polls after pc1's two-byte frame was stored and gets it
\* while a further upload of pc1 is still in flight.
C1_Witness ==
    /\ resp.op = "get" /\ resp.arg = "pc2" /\ resp.resolved = "pc1"
    /\ lastMut["pc1"].kind = "put"
    /\ resp.body = <<77, 97>>
    /\ uploads["pc1"] > 0

\* C2: last write wins, no torn entry.  Every entry is either empty or the
\* whole entry (payload and timestamp) written by the upload of that
\* device_id that took frame_lock last, also while other uploads of the same
\* device_id are in flight; and a reader gets the fallback or one whole
\* uploaded payload.
C2_LastWriteWins ==
    /\ \A d \in DOMAIN uploaded_frames :
          \/ uploaded_frames[d] = EmptyEntry /\ lastMut[d].kind # "put"
          \/ /\ lastMut[d].kind = "put"
             /\ lastMut[d].payload \in UploadedPayloads
             /\ uploaded_frames[d] =
                   [frame_data |-> B64Encode(lastMut[d].payload),
                    timestamp |-> lastMut[d].time]
    /\ resp.op = "get" => resp.body \in UploadedPayloads \cup {BlackFrame}

\* C2 witness: two uploads of pc1 were in flight together, one has stored
\* <<255>>, the other has not finished, and the reader sees the whole stored
\* payload.
C2_Witness ==
    /\ uploads["pc1"] = 1
    /\ lastMut["pc1"].kind = "put" /\ lastMut["pc1"].payload = <<255>>
    /\ resp.op = "get" /\ resp.resolved = "pc1" /\ resp.body = <<255>>

\* C8: after Clear(d) of a device that had a frame, with no upload of d
\* since, a get_latest_frame resolving to d answers the fallback placeholder.
C8_ClearThenGet ==
    (resp.op = "get" /\ lastMut[resp.resolved].kind = "clear")
        => /\ resp.body = BlackFrame
           /\ resp.body \notin UploadedPayloads

\* C8 witness: pc1 had a frame, it was cleared, and pc2's poll got the
\* placeholder.
C8_Witness ==
    /\ resp.op = "get" /\ resp.arg = "pc2"
    /\ lastMut["pc1"].kind = "clear"
    /\ resp.body = BlackFrame

\* A step in which get_latest_frame answered.
GetStep == resp'.op = "get" /\ resp' # resp

\* C9: for a device d no upload of which has completed, a get_latest_frame
\* resolving to d answers the fallback placeholder; and get_latest_frame is
\* idempotent: it changes no entry of uploaded_frames, so the same request
\* made again gets the same body.
C9_FallbackIdempotent ==
    /\ []((resp.op = "get" /\ lastMut[resp.resolved].kind = "none")
            => resp.body = BlackFrame)
    /\ [][GetStep =>
            /\ uploaded_frames' = uploaded_frames
            /\ FrameBody(StoredFrame(uploaded_frames', resp'.resolved)) = resp'.body
         ]_vars

\* C9 witness: pc1 has a stored frame, pc2 never uploaded, and pc1's poll
\* (which resolves to pc2) got the placeholder.
C9_Witness ==
    /\ resp.op = "get" /\ resp.arg = "pc1" /\ resp.resolved = "pc2"
    /\ lastMut["pc2"].kind = "none" /\ lastMut["pc1"].kind = "put"
    /\ resp.body = BlackFrame

\* C11: get_latest_frame never fails for the client.  Whatever device_id is
\* sent (configured, unknown, empty or absent) and whatever the store holds,
\* the answer is 200 with a non-empty image body, and that body is the frame
\* stored for the resolved device or the fallback placeholder.
C11_NeverFails ==
    /\ [](resp.op = "get" => (resp.status = 200 /\ Len(resp.body) > 0))
    /\ [][GetStep =>
            \/ resp'.body = BlackFrame
            \/ /\ resp'.body \in UploadedPayloads
               /\ B64Encode(resp'.body) = StoredFrame(uploaded_frames, resp'.resolved)
         ]_vars

\* C11 witness: a requester outside the configured set polls while phone has
\* a frame and pc1 has none: the answer is 200 with the placeholder.
C11_Witness ==
    /\ resp.op = "get" /\ resp.arg = "cam"
    /\ resp.status = 200 /\ resp.body = BlackFrame
    /\ lastMut["phone"].kind = "put" /\ lastMut["pc1"].kind = "none"

\* The designated peer of a requester, as the rule is stated: the first id of
\* [pc1, pc2, phone] that is not the requester.
ExpectedPeer(q) == IF q = "pc1" THEN "pc2" ELSE "pc1"

\* C12: get_latest_frame resolves the requester to one peer by a fixed rule:
\* pc1 -> pc2, pc2 -> pc1, phone -> pc1, an id outside the list -> pc1, an
\* absent id is treated as pc1 (so -> pc2); a configured requester is never
\* resolved to itself.
C12_FixedPeer ==
    resp.op = "get" =>
        /\ resp.resolved = ExpectedPeer(IF resp.arg = NoDevice THEN "pc1" ELSE resp.arg)
        /\ resp.arg \in ConfiguredDevices => resp.resolved # resp.arg
        /\ resp.resolved \in {"pc1", "pc2"}

\* C12 witness: phone polls and is shown the frame pc1 uploaded, while pc2
\* has a frame too.
C12_Witness ==
    /\ resp.op = "get" /\ resp.arg = "phone" /\ resp.resolved = "pc1"
    /\ resp.body = <<255>>
    /\ lastMut["pc2"].kind = "put"

\* C13: every read and every write of uploaded_frames and of the relay globals
\* is made by a handler that holds the lock at that moment.
C13_AllAccessLocked == access.shared # "" => access.locked

\* C17: the /debug report.  For every configured device id has_frame is
\* true exactly when the last completed mutation of that id is an upload
\* (not a clear); before any upload it is false for all of them.  (Every
\* step that changes an entry replaces resp, so while resp is the debug
\* answer the store is the one it reported.)
C17_StatusHasFrame ==
    resp.op = "debug" =>
        /\ ConfiguredDevices \subseteq resp.report.known
        /\ \A d \in ConfiguredDevices :
              d \in resp.report.has_frame <=> lastMut[d].kind = "put"
        /\ (\A d \in ConfiguredDevices : lastMut[d].kind = "none")
              => resp.report.has_frame = {}

\* C17 witness: pc1 uploaded, pc2 uploaded and was cleared, phone never
\* uploaded; /debug reports has_frame for pc1 alone.
C17_Witness ==
    /\ resp.op = "debug" /\ resp.report.has_frame = {"pc1"}
    /\ lastMut["pc1"].kind = "put" /\ lastMut["pc2"].kind = "clear"
    /\ lastMut["phone"].kind = "none"

\* C18: uploaded_frames holds exactly the configured ids, in every state.
C18_FixedKeySet == DOMAIN uploaded_frames = ConfiguredDevices

\* C19: a Put or Clear of d changes the entry of d only (payload and
\* timestamp of every other id stay), and the entry of d holds nothing of
\* what it held before: it is one whole new entry, and a poll resolved to d
\* gets the new payload (or the placeholder after a clear), never the old.
C19_OnlyOwnEntry ==
    [][uploaded_frames' # uploaded_frames =>
          \E d \in StoreKeys :
              /\ \A k \in DOMAIN uploaded_frames \ {d} :
                    /\ k \in DOMAIN uploaded_frames'
                    /\ uploaded_frames'[k] = uploaded_frames[k]
              /\ DOMAIN uploaded_frames' \subseteq DOMAIN uploaded_frames \cup {d}
              /\ \/ uploaded_frames'[d] = EmptyEntry
                 \/ /\ lastMut'[d].kind = "put"
                    /\ uploaded_frames'[d] =
                          [frame_data |-> B64Encode(lastMut'[d].payload),
                           timestamp |-> lastMut'[d].time]
              /\ FrameBody(StoredFrame(uploaded_frames', d)) =
                    (IF lastMut'[d].kind = "put" THEN lastMut'[d].payload ELSE BlackFrame)
      ]_vars

\* C19 witness: pc1 and pc2 both hold a frame, different ones, the last
\* request was a successful upload, and phone's frame has been cleared.
C19_Witness ==
    /\ resp.op = "upload" /\ resp.status = 200
    /\ uploaded_frames["pc1"].frame_data = B64Encode(<<255>>)
    /\ uploaded_frames["pc2"].frame_data = B64Encode(<<77, 97>>)
    /\ lastMut["phone"].kind = "clear"

\* C21: frame_lock is free in every state (each handler releases it before
\* it suspends or returns), so nothing ever waits for it: get_latest_frame
\* and clear_frames can run to their answer from every state, an upload
\* suspended in its read can complete from every state whatever other
\* uploads are in flight, and under weak fairness uploads do complete: a
\* device with uploads in flight again and again has uploads completing again
\* and again, and when pc1 and pc2 both have uploads in flight and no
\* further one can start, one of them completes.
C21_LockFreeProgress ==
    /\ [](frame_lock = FALSE)
    /\ [](\A q \in DeviceInputs : ENABLED GetLatestFrame(q))
    /\ [](\A d \in StoreKeys : ENABLED ClearFrames(d))
    /\ [](\A d \in UploadKeys :
             uploads[d] > 0 => \A b \in Payloads : ENABLED UploadRead(d, b, 1))
    /\ \A d \in LiveDevices :
          []<>(uploads[d] > 0) => []<><<UploadCompletes(d)>>_vars
    /\ (uploads["pc1"] > 0 /\ uploads["pc2"] > 0 /\ InFlight = MaxTasks)
          ~> (InFlight < MaxTasks)

\* C21 witness: an upload of pc1 has completed and stored its frame while an
\* upload of pc2, which has stored nothing yet, is still in flight.
C21_Witness ==
    /\ resp.op = "upload" /\ resp.status = 200
    /\ lastMut["pc1"].kind = "put" /\ lastMut["pc2"].kind = "none"
    /\ uploads["pc2"] > 0
    /\ frame_lock = FALSE

\* C22: in every state each entry has frame_data None exactly when its
\* timestamp is 0 (an upload writes a frame and a positive time together, a
\* clear resets both), so /debug reports an age for exactly the devices it
\* reports a frame for.
C22_FrameIffTimestamp ==
    /\ \A d \in DOMAIN uploaded_frames :
          /\ uploaded_frames[d].frame_data = None <=> uploaded_frames[d].timestamp = 0
          /\ uploaded_frames[d].timestamp >= 0
    /\ resp.op = "debug" => resp.report.has_frame = resp.report.aged

\* C22 witness: pc1 holds a frame stored at time 1, pc2's frame has been
\* cleared, and /debug reports frame and age for pc1 alone.
C22_Witness ==
    /\ uploaded_frames["pc1"].frame_data = B64Encode(<<77, 97>>)
    /\ uploaded_frames["pc1"].timestamp = 1
    /\ lastMut["pc2"].kind = "clear" /\ uploaded_frames["pc2"] = EmptyEntry
    /\ resp.op = "debug"
    /\ resp.report.has_frame = {"pc1"} /\ resp.report.aged = {"pc1"}

\* C23: no poll is ever answered from phone's entry or from an entry outside
\* {pc1, pc2}: the body is what the pc1 or pc2 entry decodes to, and while
\* neither pc1 nor pc2 holds a frame every poll gets the placeholder,
\* whatever phone has uploaded.
C23_PhoneNeverServed ==
    /\ [](resp.op = "get" =>
            /\ resp.resolved # "phone"
            /\ (lastMut["pc1"].kind # "put" /\ lastMut["pc2"].kind # "put")
                  => resp.body = BlackFrame)
    /\ [][GetStep =>
            resp'.body \in {FrameBody(StoredFrame(uploaded_frames, "pc1")),
                            FrameBody(StoredFrame(uploaded_frames, "pc2"))}
         ]_vars

\* C23 witness: phone has uploaded a frame, pc1 and pc2 have not, and pc2's
\* poll got the placeholder.
C23_Witness ==
    /\ lastMut["phone"].kind = "put"
    /\ uploaded_frames["phone"].frame_data = B64Encode(<<255>>)
    /\ lastMut["pc1"].kind = "none" /\ lastMut["pc2"].kind = "none"
    /\ resp.op = "get" /\ resp.arg = "pc2" /\ resp.body = BlackFrame

\* C10: an upload whose device_id is missing or empty, or whose frame is
\* missing or empty, is answered 400; 200 is answered only to a non-empty
\* device_id with a non-empty frame.
C10_RejectsInvalid ==
    resp.op = "upload" =>
        /\ (\/ resp.arg \in {NoDevice, ""}
            \/ resp.frame \in {"missing", "empty_text", "empty_file"})
              => resp.status = 400
        /\ resp.status = 200 => (resp.arg = "id" /\ resp.frame = "file")

\* What the code does guarantee for uploads: only a 200 answer goes with a
\* change of uploaded_frames; 400 and 500 leave every entry as it was.
UploadStoresOnlyOn200 ==
    [][(resp'.op = "upload" /\ uploaded_frames' # uploaded_frames)
          => (resp'.status = 200 /\ resp'.arg = "id" /\ resp'.frame = "file")]_vars

\* ------------------------------------------------------- whole application
\* claims

\* C20: the frame store and the relay registry are independent.  A step of
\* the relay (connect, forward, disconnect) leaves uploaded_frames and all
\* the rest of the frame store as it was; a step of an HTTP handler (upload,
\* get_latest_frame, clear, debug, health) leaves both relay globals and all
\* the rest of the relay as it was; no step changes both.
C20_Independent ==
    [][/\ relayVars' # relayVars => storeVars' = storeVars
       /\ storeVars' # storeVars => relayVars' = relayVars
       /\ uploaded_frames' = uploaded_frames
             \/ (device1_ws' = device1_ws /\ device2_ws' = device2_ws)
      ]_vars

\* C20 witness: both halves have acted in one run: pc1 has a stored frame
\* that /debug reports, both relay slots are occupied and message 1 has
\* been forwarded from connection 1 to connection 2.
C20_Witness ==
    /\ lastMut["pc1"].kind = "put" /\ resp.op = "debug"
    /\ resp.report.has_frame = {"pc1"}
    /\ device1_ws # NoConn /\ device2_ws # NoConn
    /\ delivered[2] = <<1>>

\* -------------------------------------------------------------- audio relay
\* claims

\* The connection registered in the slot c forwards to.
RegisteredPeer(c) == IF ws[c].endpoint = 1 THEN device2_ws ELSE device1_ws

\* The set of messages in a sequence.
Range(q) == {q[i] : i \in 1..Len(q)}

\* What a client has been handed: only messages whose receiver found this
\* connection registered as its peer, each once, those of one sender in the
\* order it received them.
C3_Delivered ==
    \A d \in Conns :
        LET q == delivered[d]
        IN  /\ \A i \in 1..Len(q) :
                  /\ q[i] \in 1..nmsg
                  /\ rcv[q[i]].peer = d
                  /\ rcv[q[i]].by # d
            /\ \A i, j \in 1..Len(q) :
                  i < j => /\ q[i] # q[j]
                           /\ rcv[q[i]].by = rcv[q[j]].by => q[i] < q[j]

\* A message received while a peer is registered is handed, as it is, to
\* send_bytes of that peer; a send to an open peer appends exactly that
\* message to what the peer's client has.
C3_Forward ==
    \A c \in Conns :
        /\ (nmsg' = nmsg + 1 /\ rcv'[nmsg'].by = c /\ RegisteredPeer(c) # NoConn)
              => /\ ws'[c].pc = "send"
                 /\ ws'[c].target = RegisteredPeer(c)
                 /\ ws'[c].data = nmsg'
        /\ (ws[c].pc = "send" /\ ws'[c].pc # "send" /\ IsOpen(ws[c].target))
              => /\ ws'[c].pc = "recv"
                 /\ delivered'[ws[c].target] =
                        Append(delivered[ws[c].target], ws[c].data)

\* C3: with open connections registered in both slots every binary message
\* received from one is sent unmodified to the other, and the messages of one
\* sender reach its peer in the order received, each at most once.
C3_RelayInOrder == []C3_Delivered /\ [][C3_Forward]_vars

\* C3 witness: connection 1 (one route) received messages 1 and 2 while
\* connection 2 was registered on the other route, and the client of 2 has
\* them in that order.
C3_Witness ==
    /\ delivered[2] = <<1, 2>>
    /\ rcv[1].by = 1 /\ rcv[2].by = 1
    /\ ws[1].endpoint # ws[2].endpoint
    /\ IsOpen(1) /\ IsOpen(2)

\* C4: a connection that leaves clears its slot only if it is still the
\* occupant; a slot holding another connection is left as it is.
C4_ExitKeepsNewer ==
    [][\A c \in Conns :
          (Running(c) /\ ws'[c].pc = "done")
              => /\ device1_ws # c => device1_ws' = device1_ws
                 /\ device2_ws # c => device2_ws' = device2_ws
      ]_vars

\* C5: a failed send from c to its registered peer is swallowed: c stays in
\* its receive loop and both slots stay as they were.
C5_SendFailureSwallowed ==
    [][\A c \in Conns :
          (ws[c].pc = "send" /\ ~IsOpen(ws[c].target) /\ ws'[c].pc # "send")
              => /\ ws'[c].pc = "recv"
                 /\ device1_ws' = device1_ws
                 /\ device2_ws' = device2_ws
      ]_vars

\* The step is a read failure on a, or the close of a's client.
FailsOrCloses(a) ==
    \/ ws[a].pc = "recv" /\ ws'[a].pc = "done"
    \/ ws[a].alive /\ ~ws'[a].alive /\ ws'[a].pc = ws[a].pc

\* What the code does guarantee: the step in which a's read fails or a's
\* client closes changes no other connection and not the other route's slot.
FailureStepIsLocal ==
    [][\A a \in Conns :
          FailsOrCloses(a) =>
              /\ \A b \in Conns \ {a} : ws'[b] = ws[b]
              /\ ws[a].endpoint = 1 => device2_ws' = device2_ws
              /\ ws[a].endpoint = 2 => device1_ws' = device1_ws
              /\ delivered' = delivered
      ]_vars

\* C14: connection isolation.  A read failure or close on a changes only a
\* and a's slot, and the other connections go on: a handler whose client is
\* still there leaves its loop only when its own read fails, never because
\* of what happened to another connection.
C14_Isolation ==
    [][/\ \A a \in Conns :
             FailsOrCloses(a) =>
                 /\ \A b \in Conns \ {a} : ws'[b] = ws[b]
                 /\ ws[a].endpoint = 1 => device2_ws' = device2_ws
                 /\ ws[a].endpoint = 2 => device1_ws' = device1_ws
       /\ \A b \in Conns :
             (IsOpen(b) /\ ws'[b].pc = "done") => ws[b].pc = "recv"
      ]_vars

\* C15 as stated: once a connection has been replaced in its slot it is
\* handed no forwarded message any more: every message handed over goes to
\* the connection that occupies its slot at that moment.
C15_NoTrafficToReplaced ==
    [][\A d \in Conns :
          delivered'[d] # delivered[d] => OwnSocket(ws[d].endpoint) = d
      ]_vars

\* C15, amended: an accepted connection is written into its slot whatever the
\* slot held; the replaced connection is left as it is (open, in its loop);
\* every forward starts towards the occupant of the peer slot at that
\* moment, so a replaced connection is handed only messages whose send had
\* started while it was still registered.
C15_ReplaceOnAccept ==
    /\ [](\A c \in Conns :
             ws[c].pc = "send" => rcv[ws[c].data].peer = ws[c].target)
    /\ [](\A d \in Conns : \A i \in 1..Len(delivered[d]) :
             rcv[delivered[d][i]].peer = d)
    /\ [][/\ (nconn' = nconn + 1) =>
                (/\ (IF ws'[nconn'].endpoint = 1 THEN device1_ws' ELSE device2_ws') = nconn'
                 /\ (IF ws'[nconn'].endpoint = 1 THEN device2_ws' ELSE device1_ws')
                        = PeerSocket(ws'[nconn'].endpoint)
                 /\ \A x \in Conns \ {nconn'} : ws'[x] = ws[x])
          /\ (nmsg' = nmsg + 1 /\ ws'[rcv'[nmsg'].by].pc = "send") =>
                (ws'[rcv'[nmsg'].by].target = RegisteredPeer(rcv'[nmsg'].by))
         ]_vars

\* C15 witness: connection 3 has replaced connection 2 in its slot while the
\* send of message 2 to connection 2 is in progress; 2 is still open and
\* holds message 1 from before.
C15_Witness ==
    /\ ws[2].endpoint = ws[3].endpoint /\ ws[1].endpoint # ws[2].endpoint
    /\ IsOpen(2) /\ IsOpen(3)
    /\ OwnSocket(ws[3].endpoint) = 3
    /\ delivered[2] = <<1>>
    /\ ws[1].pc = "send" /\ ws[1].target = 2 /\ ws[1].data = 2

\* C16: slot cleanup follows every exit from the receive loop (read error,
\* close, send error): the step in which a handler leaves empties its slot,
\* no slot ever references a connection whose handler has exited, and a
\* forward never starts towards such a connection.
C16_SlotCleanup ==
    /\ [](/\ device1_ws # NoConn => (Running(device1_ws) /\ ws[device1_ws].endpoint = 1)
          /\ device2_ws # NoConn => (Running(device2_ws) /\ ws[device2_ws].endpoint = 2))
    /\ [][\A c \in Conns :
             /\ (Running(c) /\ ws'[c].pc = "done") =>
                    (IF ws[c].endpoint = 1 THEN device1_ws' ELSE device2_ws') = NoConn
             /\ (ws[c].pc = "recv" /\ ws'[c].pc = "send") => Running(ws'[c].target)
         ]_vars

\* C16 witness: connection 2 left its loop on a send error (its client was
\* still there: it had just received message 1 for connection 1, whose
\* client had gone), its slot is empty, and connection 3 registered on the
\* other route afterwards finds no peer to forward to.
C16_Witness ==
    /\ ws[2].pc = "done" /\ rcv[1].by = 2 /\ rcv[1].peer = 1
    /\ delivered[1] = <<>>
    /\ OwnSocket(ws[2].endpoint) = NoConn
    /\ IsOpen(3) /\ ws[3].endpoint # ws[2].endpoint
    /\ rcv[2].by = 3 /\ rcv[2].peer = NoConn

\* c has been replaced in its slot by a newer connection and is still open.
Displaced(c) ==
    /\ IsOpen(c)
    /\ OwnSocket(ws[c].endpoint) # c
    /\ OwnSocket(ws[c].endpoint) # NoConn

\* C24: every message a displaced, still open connection receives while the
\* peer slot is occupied is sent to that slot's occupant; the occupant's own
\* messages go to the connection now registered in the displaced one's slot,
\* never to the displaced one.
C24_DisplacedStillForwards ==
    [][nmsg' = nmsg + 1 =>
          /\ (Displaced(rcv'[nmsg'].by) /\ RegisteredPeer(rcv'[nmsg'].by) # NoConn) =>
                /\ ws'[rcv'[nmsg'].by].pc = "send"
                /\ ws'[rcv'[nmsg'].by].target = RegisteredPeer(rcv'[nmsg'].by)
                /\ ws'[rcv'[nmsg'].by].data = nmsg'
          /\ ws'[rcv'[nmsg'].by].pc = "send" =>
                ~Displaced(ws'[rcv'[nmsg'].by].target)
      ]_vars

\* C24 witness: connection 2 displaced connection 1 in its slot; both are
\* open, and connection 3 in the other slot has been handed message 1 from
\* the displaced connection 1 and message 2 from connection 2.
C24_Witness ==
    /\ ws[1].endpoint = ws[2].endpoint /\ ws[3].endpoint # ws[1].endpoint
    /\ Displaced(1) /\ IsOpen(2) /\ IsOpen(3)
    /\ OwnSocket(ws[2].endpoint) = 2
    /\ rcv[1].by = 1 /\ rcv[2].by = 2
    /\ delivered[3] = <<1, 2>>

\* C6: re-pairing.  Once a has registered into the slot a closed connection
\* left empty, with b open in the other slot, a and b stay registered as each
\* other's peers (so each forwards to the other) for as long as neither
\* client leaves, no read on them fails and nobody else registers.
C6_Repaired ==
    repair.a # NoConn =>
        /\ Running(repair.a) /\ Running(repair.b)
        /\ OwnSocket(ws[repair.a].endpoint) = repair.a
        /\ OwnSocket(ws[repair.b].endpoint) = repair.b

\* C7: a message received while the peer slot is empty is dropped: no
\* connection is ever handed it and no send of it is pending.
C7_DroppedNeverDelivered ==
    \A m \in 1..nmsg :
        rcv[m].peer = NoConn =>
            /\ \A d \in Conns : m \notin Range(delivered[d])
            /\ \A c \in Conns : ~(ws[c].pc = "send" /\ ws[c].data = m)

\* C7 witness: message 1 arrived on connection 1 while the other slot was
\* empty; connection 2 registered there afterwards and has been handed
\* message 2 only.
C7_Witness ==
    /\ nmsg = 2
    /\ rcv[1].by = 1 /\ rcv[1].peer = NoConn
    /\ rcv[2].by = 1 /\ rcv[2].peer = 2
    /\ delivered[2] = <<2>>

====
